---------------------------- MODULE Spec2Model ----------------------------
(***************************************************************************)
(* Model of the quantum classifiers of Quantum_classifiers_BSQ_201:        *)
(*   - QCNN_Solver (qcnn_method.py): the parameter count of __init__, the  *)
(*     convolution / pool circuit generators, generate_qcnn_circuit, and   *)
(*     the drivers run and run_batched;                                    *)
(*   - Quantum_Kernel_Classification (kernel_method.py): the kernel        *)
(*     circuit, the qkernel matrix builder and the driver run.             *)
(*                                                                         *)
(* Quantum operations are recorded on a tape in the order they are queued: *)
(*   <<"RY", parameter, wire>>, <<"CNOT", control, target>>,               *)
(*   <<"EMBED", x, 0>>, <<"ADJOINT_EMBED", x, 0>>, <<"EXPVAL_Z", wire, 0>>,*)
(*   <<"PROBS", number of wires, 0>>.                                      *)
(* The numeric simulation of a circuit is external to the repository; it   *)
(* is represented by the fixed tables expval and overlap below.            *)
(***************************************************************************)
EXTENDS Integers, Sequences, FiniteSets

\* ------------------------------------------------------------------ bounds
\* largest register size a solver is constructed with
MaxQubits ==
    16

\* largest number of samples of a dataset
MaxSamples ==
    5

\* largest num_batches handed to run_batched
MaxBatches ==
    3

\* largest number of times an optimizer invokes the cost function
MaxCalls ==
    5

\* parameter vectors are the points 0..MaxParamVec of the parameter space
MaxParamVec ==
    1

\* ------------------------------------------------------------------- state
VARIABLES
    pc,                    \* position of the program
    num_qubits,            \* self.num_qubits
    num_params,            \* self.num_params
    test_qubits,           \* local of __init__
    init_iterations,       \* iterations of the counting loop of __init__ so far
    params,                \* argument params of generate_qcnn_circuit / convolution
    num_params_utilized,   \* local of generate_qcnn_circuit
    num_qubits_utilized,   \* local of generate_qcnn_circuit
    tape,                  \* operations queued so far, in order
    conv_calls,            \* one record per call of convolution, in order
    pool_calls,            \* one record per call of pool, in order
    feature_vectors,       \* argument of run / run_batched
    labels,                \* argument of run / run_batched
    training_ratio,        \* argument of the drivers, <<numerator, denominator>>
    training_period,       \* local of the drivers
    training_vectors,
    testing_vectors,
    training_labels,
    testing_labels,
    predictions,           \* local of the drivers; the second value returned
    score,                 \* the first value returned
    self_params,           \* self.params of the QCNN_Solver
    initial_params,        \* self.params when the driver was entered
    optimizer_result,      \* <<value>> returned by optimizer_function, or <<>>
    num_batches,           \* argument of run_batched
    batch_lenght,          \* local of run_batched
    batch_number,          \* closure variable of run_batched
    cost_calls,            \* one record per invocation of cost_function
    resulting_labels,      \* local of cost_function, handed to error_function
    test_evals,            \* circuit evaluations of the prediction loop
    qkernel_calls          \* one record per call of qkernel

circuit_vars ==
    <<num_qubits, num_params, test_qubits, init_iterations, params,
      num_params_utilized, num_qubits_utilized, tape, conv_calls, pool_calls>>

data_vars ==
    <<feature_vectors, labels, training_ratio, training_period, training_vectors,
      testing_vectors, training_labels, testing_labels>>

solver_vars ==
    <<self_params, initial_params, optimizer_result>>

batch_vars ==
    <<num_batches, batch_lenght, batch_number>>

driver_vars ==
    <<data_vars, predictions, score, solver_vars, batch_vars, cost_calls,
      resulting_labels, test_evals, qkernel_calls>>

vars ==
    <<pc, circuit_vars, driver_vars>>

\* --------------------------------------------------------- python helpers
\* value read by an out-of-range index (Python raises IndexError there)
IndexError ==
    -1

\* params[k], 0-based
item(seq, k) ==
    IF k >= 0 /\ k < Len(seq) THEN seq[k + 1] ELSE IndexError

\* seq[lo:hi] for 0 <= lo, 0 <= hi: both ends are clamped to len(seq)
slice(seq, lo, hi) ==
    LET n == Len(seq)
        a == IF lo > n THEN n ELSE lo
        b == IF hi > n THEN n ELSE hi
    IN  SubSeq(seq, a + 1, b)

\* seq[lo:]
slice_from(seq, lo) ==
    slice(seq, lo, Len(seq))

\* ceil_half rounding down instead of up
ceil_half_floor(x) ==
    x \div 2

\* int(np.ceil(x / 2)) for an int x >= 0
ceil_half(x) ==
    (x \div 2) + (IF x % 2 = 0 THEN 0 ELSE 1)

max(a, b) ==
    IF a >= b THEN a ELSE b

\* --------------------------------------------------------- QCNN_Solver.pool
RECURSIVE pool_loop(_, _, _)
\* for i in range(i, old_size): qml.CNOT(wires=(i, old_size - i - 1))
pool_loop(i, old_size, gates) ==
    IF i >= old_size
    THEN gates
    ELSE pool_loop(i + 1, old_size,
                   Append(gates, <<"CNOT", i, old_size - i - 1>>))

\* pool pairing position i with old_size - i
pool_shifted_target(old_size) ==
    LET new_size == ceil_half(old_size)
    IN  [gates |-> [j \in 1..(old_size - new_size) |->
                       <<"CNOT", new_size + j - 1, old_size - (new_size + j - 1)>>],
         ret |-> new_size]

\* pool(old_size): the gates queued and the value returned
pool(old_size) ==
    LET new_size == ceil_half(old_size)
    IN  [gates |-> pool_loop(new_size, old_size, <<>>), ret |-> new_size]

\* -------------------------------------------------- QCNN_Solver.convolution
RECURSIVE conv_loop(_, _, _, _, _, _)
\* the for loop of the general case, from iteration i on
conv_loop(i, num_qubits_arg, params_arg, qubit_to_target, i_param, gates) ==
    IF i >= num_qubits_arg
    THEN [gates |-> gates, ret |-> i_param]
    ELSE LET target_qubit == (i + qubit_to_target) % num_qubits_arg
         IN  conv_loop(i + 1, num_qubits_arg, params_arg, qubit_to_target,
                       i_param + 2,
                       gates \o <<
                           <<"RY", item(params_arg, i_param), i>>,
                           <<"RY", item(params_arg, i_param + 1), target_qubit>>,
                           <<"CNOT", i, target_qubit>> >>)

\* convolution with qubit_to_target = num_qubits - 3, without the max(..., 1)
convolution_no_max(num_qubits_arg, params_arg) ==
    IF num_qubits_arg = 2
    THEN [gates |-> << <<"RY", item(params_arg, 0), 0>>,
                       <<"RY", item(params_arg, 1), 1>>,
                       <<"CNOT", 0, 1>> >>,
          ret |-> 2]
    ELSE conv_loop(0, num_qubits_arg, params_arg, num_qubits_arg - 3, 0, <<>>)

\* convolution without the base case: size 2 goes through the general loop
convolution_no_base_case(num_qubits_arg, params_arg) ==
    conv_loop(0, num_qubits_arg, params_arg,
              max(num_qubits_arg - 3, 1), 0, <<>>)

\* convolution(num_qubits, params): the gates queued and the value returned
convolution(num_qubits_arg, params_arg) ==
    IF num_qubits_arg = 2
    THEN [gates |-> << <<"RY", item(params_arg, 0), 0>>,
                       <<"RY", item(params_arg, 1), 1>>,
                       <<"CNOT", 0, 1>> >>,
          ret |-> 2]
    ELSE conv_loop(0, num_qubits_arg, params_arg,
                   max(num_qubits_arg - 3, 1), 0, <<>>)

\* ---------------------------------------------------- QCNN_Solver.__init__
\* QCNN_Solver(embedding, n): lines 30-39, up to the counting loop
InitBegin(n) ==
    /\ pc = "idle"
    /\ pc' = "init_loop"
    /\ num_qubits' = n
    /\ num_params' = 0
    /\ test_qubits' = n
    /\ UNCHANGED <<init_iterations, params, num_params_utilized,
                   num_qubits_utilized, tape, conv_calls, pool_calls>>
    /\ UNCHANGED driver_vars

\* one iteration of `while test_qubits > 1`
InitLoop ==
    /\ pc = "init_loop"
    /\ test_qubits > 1
    /\ num_params' = num_params + 2 * test_qubits
    /\ test_qubits' = ceil_half(test_qubits)
    /\ init_iterations' = init_iterations + 1
    /\ UNCHANGED <<pc, num_qubits, params, num_params_utilized,
                   num_qubits_utilized, tape, conv_calls, pool_calls>>
    /\ UNCHANGED driver_vars

\* __init__ without the final `self.num_params -= 2`
InitEnd_no_correction ==
    /\ pc = "init_loop"
    /\ ~(test_qubits > 1)
    /\ pc' = "constructed"
    /\ UNCHANGED <<num_qubits, num_params, test_qubits, init_iterations,
                   params, num_params_utilized, num_qubits_utilized, tape,
                   conv_calls, pool_calls>>
    /\ UNCHANGED driver_vars

\* loop exit, `self.num_params -= 2`, and the parameter vector is created
InitEnd ==
    /\ pc = "init_loop"
    /\ ~(test_qubits > 1)
    /\ num_params' = num_params - 2
    /\ pc' = "constructed"
    /\ UNCHANGED <<num_qubits, test_qubits, init_iterations, params,
                   num_params_utilized, num_qubits_utilized, tape,
                   conv_calls, pool_calls>>
    /\ UNCHANGED driver_vars

\* ------------------------------------------ QCNN_Solver.generate_qcnn_circuit
\* The parameter vector has self.num_params entries (line 44); entry j is
\* represented by the symbolic value j, so a gate records which entry it read.
symbolic_params(n) ==
    [j \in 1..n |-> j - 1]

\* entry of the circuit function: lines 108-110
GenBegin(x) ==
    /\ pc = "constructed"
    /\ pc' = "gen_conv"
    /\ params' = symbolic_params(num_params)
    /\ num_params_utilized' = 0
    /\ num_qubits_utilized' = num_qubits
    /\ tape' = << <<"EMBED", x, 0>> >>
    /\ UNCHANGED <<num_qubits, num_params, test_qubits, init_iterations,
                   conv_calls, pool_calls>>
    /\ UNCHANGED driver_vars

\* generate_qcnn_circuit handing the whole parameter vector to every
\* convolution instead of params[num_params_utilized:]
GenConvolution_no_offset ==
    /\ pc = "gen_conv"
    /\ LET arg == params
           c   == convolution(num_qubits_utilized, arg)
       IN  /\ num_params_utilized' = num_params_utilized + c.ret
           /\ tape' = tape \o c.gates
           /\ conv_calls' = Append(conv_calls,
                  [size |-> num_qubits_utilized, params |-> arg,
                   offset |-> num_params_utilized,
                   gates |-> c.gates, ret |-> c.ret])
    /\ pc' = "gen_pool"
    /\ UNCHANGED <<num_qubits, num_params, test_qubits, init_iterations,
                   params, num_qubits_utilized, pool_calls>>
    /\ UNCHANGED driver_vars

\* lines 112-114: one convolution, on the parameters not yet used
GenConvolution ==
    /\ pc = "gen_conv"
    /\ LET arg == slice_from(params, num_params_utilized)
           c   == convolution(num_qubits_utilized, arg)
       IN  /\ num_params_utilized' = num_params_utilized + c.ret
           /\ tape' = tape \o c.gates
           /\ conv_calls' = Append(conv_calls,
                  [size |-> num_qubits_utilized, params |-> arg,
                   offset |-> num_params_utilized,
                   gates |-> c.gates, ret |-> c.ret])
    /\ pc' = "gen_pool"
    /\ UNCHANGED <<num_qubits, num_params, test_qubits, init_iterations,
                   params, num_qubits_utilized, pool_calls>>
    /\ UNCHANGED driver_vars

\* lines 115-117: one pooling, then the loop's exit test
GenPool ==
    /\ pc = "gen_pool"
    /\ LET p == pool(num_qubits_utilized)
       IN  /\ num_qubits_utilized' = p.ret
           /\ tape' = tape \o p.gates
           /\ pool_calls' = Append(pool_calls,
                  [old_size |-> num_qubits_utilized,
                   gates |-> p.gates, ret |-> p.ret])
           /\ pc' = IF p.ret = 1 THEN "gen_measure" ELSE "gen_conv"
    /\ UNCHANGED <<num_qubits, num_params, test_qubits, init_iterations,
                   params, num_params_utilized, conv_calls>>
    /\ UNCHANGED driver_vars

\* line 118: return qml.expval(qml.PauliZ(0))
GenMeasure ==
    /\ pc = "gen_measure"
    /\ pc' = "gen_done"
    /\ tape' = Append(tape, <<"EXPVAL_Z", 0, 0>>)
    /\ UNCHANGED <<num_qubits, num_params, test_qubits, init_iterations,
                   params, num_params_utilized, num_qubits_utilized,
                   conv_calls, pool_calls>>
    /\ UNCHANGED driver_vars

\* ------------------------------------------------------ inputs of the drivers
\* feature vector i of a dataset is represented by the distinct value i
Datasets ==
    UNION {{[fv |-> [i \in 1..m |-> i], lb |-> l] : l \in [1..m -> {-1, 1}]}
           : m \in 1..MaxSamples}

\* training_ratio as an exact fraction <<numerator, denominator>>, 0 < r < 1
TrainingRatios ==
    {<<1, 2>>, <<2, 3>>, <<4, 5>>}

ParamVecs ==
    0..MaxParamVec

\* ------------------------------------------------------- external numerics
\* circuit_to_optimize(x, theta): the expectation value of PauliZ(0), in
\* halves (-2 stands for -1.0, 0 for exactly 0.0, 2 for +1.0)
expval(x, theta) ==
    ((x + 2 * theta) % 5) - 2

\* probability of the all-zero outcome for embedding(a), adjoint embedding(b),
\* in quarters (4 stands for 1.0)
overlap(a, b) ==
    IF a = b THEN 4 ELSE (a * b) % 4

\* a sign that maps 0 to +1
sign_zero_positive(x) ==
    IF x >= 0 THEN 1 ELSE -1

\* np.sign
sign(x) ==
    IF x > 0 THEN 1 ELSE IF x < 0 THEN -1 ELSE 0

\* content of an entry of np.empty_like(...) that was never assigned
Uninitialized ==
    9

\* utils.get_score: the number of correctly predicted labels
get_score(preds, truth) ==
    Cardinality({i \in 1..Len(truth) : preds[i] = truth[i]})

\* the split index rounded up instead of truncated
int_product_round_up(ratio, length) ==
    (ratio[1] * length + ratio[2] - 1) \div ratio[2]

\* int(training_ratio * length)
int_product(ratio, length) ==
    (ratio[1] * length) \div ratio[2]

\* ------------------------------------------------------------ QCNN_Solver.run
\* lines 149-156: the positional split
RunBegin(data, ratio, theta0) ==
    /\ pc = "idle"
    /\ pc' = "run_optimize"
    /\ feature_vectors' = data.fv
    /\ labels' = data.lb
    /\ training_ratio' = ratio
    /\ self_params' = theta0
    /\ initial_params' = theta0
    /\ training_period' = int_product(training_ratio', Len(labels'))
    /\ training_vectors' = slice(data.fv, 0, training_period')
    /\ testing_vectors' = slice_from(data.fv, training_period')
    /\ training_labels' = slice(data.lb, 0, training_period')
    /\ testing_labels' = slice_from(data.lb, training_period')
    /\ predictions' = [i \in 1..Len(testing_labels') |-> Uninitialized]
    /\ UNCHANGED <<score, optimizer_result, batch_vars, cost_calls,
                   test_evals, qkernel_calls>>
    /\ UNCHANGED <<resulting_labels, circuit_vars>>

\* lines 159-166: the optimizer invokes cost_function(theta)
RunCost(theta) ==
    /\ pc = "run_optimize"
    /\ Len(cost_calls) < MaxCalls
    /\ cost_calls' = Append(cost_calls,
           [lo |-> 0, hi |-> Len(training_vectors),
            vectors |-> training_vectors,
            labels |-> training_labels])
    /\ resulting_labels' = [i \in 1..Len(training_vectors) |->
                                expval(training_vectors[i], theta)]
    /\ UNCHANGED <<pc, data_vars, predictions, score, solver_vars,
                   batch_vars, test_evals, qkernel_calls>>
    /\ UNCHANGED circuit_vars

\* line 168: self.params = optimizer_function(cost_function, self.params)
RunOptimized(theta) ==
    /\ pc = "run_optimize"
    /\ pc' = "run_predict"
    /\ optimizer_result' = <<theta>>
    /\ self_params' = theta
    /\ resulting_labels' = <<>>
    /\ UNCHANGED <<data_vars, predictions, score, initial_params,
                   batch_vars, cost_calls, test_evals, qkernel_calls>>
    /\ UNCHANGED circuit_vars

\* lines 171-174: one iteration of the prediction loop
RunPredict ==
    /\ pc = "run_predict"
    /\ Len(test_evals) < Len(testing_vectors)
    /\ LET i == Len(test_evals) + 1
           out == expval(testing_vectors[i], self_params)
       IN  /\ predictions' = [predictions EXCEPT ![i] = sign(out)]
           /\ test_evals' = Append(test_evals,
                  [vector |-> testing_vectors[i], params |-> self_params,
                   out |-> out])
    /\ UNCHANGED <<pc, data_vars, score, solver_vars, batch_vars,
                   cost_calls, qkernel_calls>>
    /\ UNCHANGED <<resulting_labels, circuit_vars>>

\* line 176: return get_score(predictions, testing_labels), predictions
RunReturn ==
    /\ pc = "run_predict"
    /\ Len(test_evals) = Len(testing_vectors)
    /\ pc' = "run_done"
    /\ score' = get_score(predictions, testing_labels)
    /\ UNCHANGED <<data_vars, predictions, solver_vars, batch_vars,
                   cost_calls, test_evals, qkernel_calls>>
    /\ UNCHANGED <<resulting_labels, circuit_vars>>

\* ---------------------------------------------------- QCNN_Solver.run_batched
\* lines 211-223: the positional split, batch_lenght and batch_number
BatchedBegin(data, ratio, theta0, batches) ==
    /\ pc = "idle"
    /\ pc' = "batched_optimize"
    /\ feature_vectors' = data.fv
    /\ labels' = data.lb
    /\ training_ratio' = ratio
    /\ self_params' = theta0
    /\ initial_params' = theta0
    /\ num_batches' = batches
    /\ training_period' = int_product(training_ratio', Len(labels'))
    /\ training_vectors' = slice(data.fv, 0, training_period')
    /\ testing_vectors' = slice_from(data.fv, training_period')
    /\ training_labels' = slice(data.lb, 0, training_period')
    /\ testing_labels' = slice_from(data.lb, training_period')
    /\ predictions' = [i \in 1..Len(testing_labels') |-> Uninitialized]
    /\ batch_lenght' = Len(training_labels') \div batches
    /\ batch_number' = 0
    /\ UNCHANGED <<score, optimizer_result, cost_calls, test_evals,
                   qkernel_calls>>
    /\ UNCHANGED <<resulting_labels, circuit_vars>>

\* cost_function that never advances batch_number
BatchedCost_no_advance(theta) ==
    /\ pc = "batched_optimize"
    /\ Len(cost_calls) < MaxCalls
    /\ LET lo == batch_number * batch_lenght
           hi == (batch_number + 1) * batch_lenght
           batched_training_vectors == slice(training_vectors, lo, hi)
           batched_training_labels == slice(training_labels, lo, hi)
       IN  /\ cost_calls' = Append(cost_calls,
                  [lo |-> lo, hi |-> hi,
                   vectors |-> batched_training_vectors,
                   labels |-> batched_training_labels])
           /\ resulting_labels' =
                  [i \in 1..Len(batched_training_vectors) |->
                      expval(batched_training_vectors[i], theta)]
    /\ UNCHANGED <<pc, data_vars, predictions, score, solver_vars,
                   batch_vars, test_evals, qkernel_calls>>
    /\ UNCHANGED circuit_vars

\* cost_function whose batch_number wraps around at num_batches
BatchedCost_wraparound(theta) ==
    /\ pc = "batched_optimize"
    /\ Len(cost_calls) < MaxCalls
    /\ LET lo == batch_number * batch_lenght
           hi == (batch_number + 1) * batch_lenght
           batched_training_vectors == slice(training_vectors, lo, hi)
           batched_training_labels == slice(training_labels, lo, hi)
       IN  /\ cost_calls' = Append(cost_calls,
                  [lo |-> lo, hi |-> hi,
                   vectors |-> batched_training_vectors,
                   labels |-> batched_training_labels])
           /\ resulting_labels' =
                  [i \in 1..Len(batched_training_vectors) |->
                      expval(batched_training_vectors[i], theta)]
    /\ batch_number' = (batch_number + 1) % num_batches
    /\ UNCHANGED <<pc, data_vars, predictions, score, solver_vars,
                   num_batches, batch_lenght, test_evals, qkernel_calls>>
    /\ UNCHANGED circuit_vars

\* lines 225-243: the optimizer invokes cost_function(theta)
BatchedCost(theta) ==
    /\ pc = "batched_optimize"
    /\ Len(cost_calls) < MaxCalls
    /\ LET lo == batch_number * batch_lenght
           hi == (batch_number + 1) * batch_lenght
           batched_training_vectors == slice(training_vectors, lo, hi)
           batched_training_labels == slice(training_labels, lo, hi)
       IN  /\ cost_calls' = Append(cost_calls,
                  [lo |-> lo, hi |-> hi,
                   vectors |-> batched_training_vectors,
                   labels |-> batched_training_labels])
           /\ resulting_labels' =
                  [i \in 1..Len(batched_training_vectors) |->
                      expval(batched_training_vectors[i], theta)]
    /\ batch_number' = batch_number + 1
    /\ UNCHANGED <<pc, data_vars, predictions, score, solver_vars,
                   num_batches, batch_lenght, test_evals, qkernel_calls>>
    /\ UNCHANGED circuit_vars

\* line 245: self.params = optimizer_function(cost_function, self.params)
BatchedOptimized(theta) ==
    /\ pc = "batched_optimize"
    /\ pc' = "batched_predict"
    /\ optimizer_result' = <<theta>>
    /\ self_params' = theta
    /\ resulting_labels' = <<>>
    /\ UNCHANGED <<data_vars, predictions, score, initial_params,
                   batch_vars, cost_calls, test_evals, qkernel_calls>>
    /\ UNCHANGED circuit_vars

\* lines 248-251: one iteration of the prediction loop
BatchedPredict ==
    /\ pc = "batched_predict"
    /\ Len(test_evals) < Len(testing_vectors)
    /\ LET i == Len(test_evals) + 1
           out == expval(testing_vectors[i], self_params)
       IN  /\ predictions' = [predictions EXCEPT ![i] = sign(out)]
           /\ test_evals' = Append(test_evals,
                  [vector |-> testing_vectors[i], params |-> self_params,
                   out |-> out])
    /\ UNCHANGED <<pc, data_vars, score, solver_vars, batch_vars,
                   cost_calls, qkernel_calls>>
    /\ UNCHANGED <<resulting_labels, circuit_vars>>

\* line 253: return get_score(predictions, testing_labels), predictions
BatchedReturn ==
    /\ pc = "batched_predict"
    /\ Len(test_evals) = Len(testing_vectors)
    /\ pc' = "batched_done"
    /\ score' = get_score(predictions, testing_labels)
    /\ UNCHANGED <<data_vars, predictions, solver_vars, batch_vars,
                   cost_calls, test_evals, qkernel_calls>>
    /\ UNCHANGED <<resulting_labels, circuit_vars>>

\* ------------------------------------------- Quantum_Kernel_Classification
\* get_kernel_embedding(a, b): the operations queued, in order
\* (<<"PROBS", 0, 0>>: the probabilities over all the wires)
get_kernel_embedding(a, b) ==
    << <<"EMBED", a, 0>>, <<"ADJOINT_EMBED", b, 0>>, <<"PROBS", 0, 0>> >>

\* self.kernel_circuit(a, b): the circuit executed and the probability vector
\* measured, element 0 first (the other outcomes are lumped in one entry)
kernel_circuit(a, b) ==
    LET t == get_kernel_embedding(a, b)
        p0 == overlap(t[1][2], t[2][2])
    IN  [tape |-> t, probs |-> <<p0, 4 - p0>>]

\* qkernel handing the pair to the circuit in the order (b, a)
qkernel_swapped(A, B) ==
    [circuits |-> [k \in 1..(Len(A) * Len(B)) |->
                      kernel_circuit(B[((k - 1) % Len(B)) + 1],
                                     A[((k - 1) \div Len(B)) + 1]).tape],
     matrix |-> [i \in 1..Len(A) |->
                    [j \in 1..Len(B) |-> item(kernel_circuit(B[j], A[i]).probs, 0)]]]

\* qkernel(A, B): the circuits executed, in order, and the matrix returned
qkernel(A, B) ==
    [circuits |-> [k \in 1..(Len(A) * Len(B)) |->
                      kernel_circuit(A[((k - 1) \div Len(B)) + 1],
                                     B[((k - 1) % Len(B)) + 1]).tape],
     matrix |-> [i \in 1..Len(A) |->
                    [j \in 1..Len(B) |-> item(kernel_circuit(A[i], B[j]).probs, 0)]]]

\* one call of the kernel function by the support vector machine
qkernel_call(A, B) ==
    LET q == qkernel(A, B)
    IN  [A |-> A, B |-> B, circuits |-> q.circuits, matrix |-> q.matrix]

\* lines 78-85: the positional split, and the machine is constructed
KernelBegin(data, ratio) ==
    /\ pc = "idle"
    /\ pc' = "svm_fit"
    /\ feature_vectors' = data.fv
    /\ labels' = data.lb
    /\ training_ratio' = ratio
    /\ training_period' = int_product(training_ratio', Len(labels'))
    /\ training_vectors' = slice(data.fv, 0, training_period')
    /\ testing_vectors' = slice_from(data.fv, training_period')
    /\ training_labels' = slice(data.lb, 0, training_period')
    /\ testing_labels' = slice_from(data.lb, training_period')
    /\ UNCHANGED <<predictions, score, solver_vars, batch_vars, cost_calls,
                   resulting_labels, test_evals, qkernel_calls>>
    /\ UNCHANGED circuit_vars

\* line 86: model.fit evaluates the kernel on the training vectors
SvmFit ==
    /\ pc = "svm_fit"
    /\ pc' = "svm_score"
    /\ qkernel_calls' = Append(qkernel_calls,
           qkernel_call(training_vectors, training_vectors))
    /\ UNCHANGED <<data_vars, predictions, score, solver_vars, batch_vars,
                   cost_calls, resulting_labels, test_evals>>
    /\ UNCHANGED circuit_vars

\* line 88: model.score evaluates the kernel between test and training
\* vectors; the machine's decisions are its own (correct counts the hits)
SvmScore(correct) ==
    /\ pc = "svm_score"
    /\ pc' = "svm_predict"
    /\ qkernel_calls' = Append(qkernel_calls,
           qkernel_call(testing_vectors, training_vectors))
    /\ score' = correct
    /\ UNCHANGED <<data_vars, predictions, solver_vars, batch_vars,
                   cost_calls, resulting_labels, test_evals>>
    /\ UNCHANGED circuit_vars

\* lines 89-91: model.predict, and the return
SvmPredict(preds) ==
    /\ pc = "svm_predict"
    /\ get_score(preds, testing_labels) = score
    /\ pc' = "kernel_done"
    /\ qkernel_calls' = Append(qkernel_calls,
           qkernel_call(testing_vectors, training_vectors))
    /\ predictions' = preds
    /\ UNCHANGED <<data_vars, score, solver_vars, batch_vars, cost_calls,
                   resulting_labels, test_evals>>
    /\ UNCHANGED circuit_vars

\* ------------------------------------- the static methods, called directly
\* QCNN_Solver.pool(old_size) on an empty tape
CallPool(old_size) ==
    /\ pc = "idle"
    /\ pc' = "pool_done"
    /\ LET p == pool(old_size)
       IN  /\ tape' = p.gates
           /\ pool_calls' = <<[old_size |-> old_size,
                               gates |-> p.gates, ret |-> p.ret]>>
    /\ UNCHANGED <<num_qubits, num_params, test_qubits, init_iterations,
                   params, num_params_utilized, num_qubits_utilized,
                   conv_calls>>
    /\ UNCHANGED driver_vars

\* QCNN_Solver.convolution(size, params) on an empty tape, with a parameter
\* vector of len_params symbolic entries
CallConvolution(size, len_params) ==
    /\ pc = "idle"
    /\ pc' = "conv_done"
    /\ params' = symbolic_params(len_params)
    /\ LET c == convolution(size, params')
       IN  /\ tape' = c.gates
           /\ conv_calls' = <<[size |-> size, params |-> params',
                               offset |-> 0,
                               gates |-> c.gates, ret |-> c.ret]>>
    /\ UNCHANGED <<num_qubits, num_params, test_qubits, init_iterations,
                   num_params_utilized, num_qubits_utilized, pool_calls>>
    /\ UNCHANGED driver_vars

\* ------------------------------------------------------------ specification
Init ==
    /\ pc = "idle"
    /\ num_qubits = 0
    /\ num_params = 0
    /\ test_qubits = 0
    /\ init_iterations = 0
    /\ params = <<>>
    /\ num_params_utilized = 0
    /\ num_qubits_utilized = 0
    /\ tape = <<>>
    /\ conv_calls = <<>>
    /\ pool_calls = <<>>
    /\ feature_vectors = <<>>
    /\ labels = <<>>
    /\ training_ratio = <<0, 1>>
    /\ training_period = 0
    /\ training_vectors = <<>>
    /\ testing_vectors = <<>>
    /\ training_labels = <<>>
    /\ testing_labels = <<>>
    /\ predictions = <<>>
    /\ score = 0
    /\ self_params = 0
    /\ initial_params = 0
    /\ optimizer_result = <<>>
    /\ num_batches = 0
    /\ batch_lenght = 0
    /\ batch_number = 0
    /\ cost_calls = <<>>
    /\ resulting_labels = <<>>
    /\ test_evals = <<>>
    /\ qkernel_calls = <<>>

\* a call is entered only when no call is in progress (pc = "idle"); the test
\* stands before the choice of the arguments
Next ==
    \/ pc = "idle" /\ \E n \in 2..MaxQubits : InitBegin(n)
    \/ InitLoop
    \/ InitEnd
    \/ pc = "constructed" /\ \E x \in {0, 1} : GenBegin(x)
    \/ GenConvolution
    \/ GenPool
    \/ GenMeasure
    \/ pc = "idle" /\ \E s \in 1..MaxQubits : CallPool(s)
    \/ pc = "idle" /\ \E s \in 2..MaxQubits : \E extra \in 0..1 :
           CallConvolution(s, 2 * s + extra)
    \/ pc = "idle" /\ \E data \in Datasets, ratio \in TrainingRatios :
           \E theta0 \in ParamVecs : RunBegin(data, ratio, theta0)
    \/ pc = "run_optimize" /\ \E theta \in ParamVecs : RunCost(theta)
    \/ pc = "run_optimize" /\ \E theta \in ParamVecs : RunOptimized(theta)
    \/ RunPredict
    \/ RunReturn
    \/ pc = "idle" /\ \E data \in Datasets, ratio \in TrainingRatios :
           \E theta0 \in ParamVecs, batches \in 1..MaxBatches :
               BatchedBegin(data, ratio, theta0, batches)
    \/ pc = "batched_optimize" /\ \E theta \in ParamVecs : BatchedCost(theta)
    \/ pc = "batched_optimize" /\ \E theta \in ParamVecs : BatchedOptimized(theta)
    \/ BatchedPredict
    \/ BatchedReturn
    \/ pc = "idle" /\ \E data \in Datasets, ratio \in TrainingRatios :
           KernelBegin(data, ratio)
    \/ SvmFit
    \/ pc = "svm_score" /\ \E correct \in 0..Len(testing_vectors) :
           SvmScore(correct)
    \/ pc = "svm_predict" /\ \E preds \in [1..Len(testing_vectors) -> {-1, 1}] :
           SvmPredict(preds)

Spec ==
    Init /\ [][Next]_vars

\* ================================================================== claims
RECURSIVE sum_ret(_)
\* sum of the values returned by the calls of a log
sum_ret(calls) ==
    IF calls = <<>> THEN 0
    ELSE calls[Len(calls)].ret + sum_ret(SubSeq(calls, 1, Len(calls) - 1))

\* ceil(log2(n)) for n >= 1: the least k with 2^k >= n
CeilLog2(n) ==
    CHOOSE k \in 0..n : 2^k >= n /\ (k = 0 \/ 2^(k - 1) < n)

\* C1: for every register size n >= 2, the parameter total precomputed by
\* __init__ equals the sum of the values returned by convolution over one
\* full run of generate_qcnn_circuit for the same n.
C1_ParamCountMatchesConsumption ==
    pc = "gen_done" =>
        /\ num_params = sum_ret(conv_calls)
        /\ num_params = num_params_utilized

C1_Witness ==
    pc = "gen_done" /\ num_qubits = 5 /\ Len(conv_calls) = 3

\* C5: for all n >= 2 the active-qubit trajectory (size replaced by
\* ceil(size/2), starting at n) reaches 1 in exactly ceil(log2(n)) steps, so
\* the counting loop of __init__ and the convolution/pooling loop of
\* generate_qcnn_circuit both stop after exactly that many iterations.
C5_TrajectoryLength ==
    /\ pc = "init_loop" =>
           /\ init_iterations <= CeilLog2(num_qubits)
           /\ (test_qubits = 1) = (init_iterations = CeilLog2(num_qubits))
    /\ pc \in {"constructed", "gen_conv", "gen_pool", "gen_measure", "gen_done"}
           => init_iterations = CeilLog2(num_qubits)
    /\ pc \in {"gen_conv", "gen_pool", "gen_measure", "gen_done"} =>
           /\ Len(pool_calls) <= CeilLog2(num_qubits)
           /\ \A k \in 1..Len(pool_calls) :
                  (pool_calls[k].ret = 1) = (k = CeilLog2(num_qubits))
    /\ pc \in {"gen_measure", "gen_done"} =>
           /\ Len(conv_calls) = CeilLog2(num_qubits)
           /\ Len(pool_calls) = CeilLog2(num_qubits)

C5_Witness ==
    /\ pc = "gen_done"
    /\ num_qubits = 9
    /\ init_iterations = 4
    /\ Len(pool_calls) = 4

\* the gates pool(old_size) must queue, by position in the sequence
PoolGatesExpected(old_size, new_size) ==
    [j \in 1..(old_size - new_size) |->
        <<"CNOT", new_size + j - 1, old_size - (new_size + j - 1) - 1>>]

\* C8: pool(old_size), old_size >= 1, returns new_size = ceil(old_size/2) and
\* queues exactly one entangling gate per i in [new_size, old_size), in
\* increasing i, from i to old_size - i - 1; every discarded position is a
\* control exactly once, every target is a kept position, no two gates share
\* a target; old_size = 5 gives new_size 3 and the pairs (3,1), (4,0).
C8_Pool ==
    \A k \in 1..Len(pool_calls) :
        LET r == pool_calls[k]
            G == r.gates
        IN  /\ 2 * r.ret >= r.old_size
            /\ 2 * (r.ret - 1) < r.old_size
            /\ G = PoolGatesExpected(r.old_size, r.ret)
            /\ \A d \in r.ret..(r.old_size - 1) :
                   Cardinality({j \in 1..Len(G) : G[j][2] = d}) = 1
            /\ \A j \in 1..Len(G) : G[j][3] >= 0 /\ G[j][3] < r.ret
            /\ \A i, j \in 1..Len(G) : G[i][3] = G[j][3] => i = j
            /\ r.old_size = 5 =>
                   r.ret = 3 /\ G = << <<"CNOT", 3, 1>>, <<"CNOT", 4, 0>> >>

C8_Witness ==
    /\ pc = "pool_done"
    /\ pool_calls[1].old_size = 5
    /\ Len(tape) = 2

\* C9: convolution(size, params), size > 2, queues for each i in [0, size), in
\* increasing order, a rotation on i with params[2i], a rotation on
\* target = (i + max(size - 3, 1)) mod size with params[2i+1], then an
\* entangling gate from i to target; it returns 2*size, every target lies in
\* [0, size), and target is never i.
C9_ConvolutionGeneral ==
    \A k \in 1..Len(conv_calls) :
        LET r == conv_calls[k]
            G == r.gates
            offs == IF r.size - 3 > 1 THEN r.size - 3 ELSE 1
        IN  r.size > 2 =>
                /\ r.ret = 2 * r.size
                /\ Len(G) = 3 * r.size
                /\ \A i \in 0..(r.size - 1) :
                       LET t == (i + offs) % r.size
                       IN  /\ G[3 * i + 1] = <<"RY", r.params[2 * i + 1], i>>
                           /\ G[3 * i + 2] = <<"RY", r.params[2 * i + 2], t>>
                           /\ G[3 * i + 3] = <<"CNOT", i, t>>
                /\ \A j \in 1..Len(G) :
                       G[j][1] = "CNOT" =>
                           /\ G[j][3] \in 0..(r.size - 1)
                           /\ G[j][3] # G[j][2]

C9_Witness ==
    /\ pc = "conv_done"
    /\ conv_calls[1].size = 5
    /\ conv_calls[1].ret = 10

\* C10: in every full circuit generation for n >= 2 the last convolution runs
\* at active size 2 through the base case: a rotation on position 0 with the
\* first remaining parameter, a rotation on position 1 with the next, one
\* entangling gate from 0 to 1, 2 parameters consumed; no earlier convolution
\* of that generation runs at size 2.
C10_LastConvolutionIsBaseCase ==
    pc = "gen_done" =>
        LET last == conv_calls[Len(conv_calls)]
            used == sum_ret(SubSeq(conv_calls, 1, Len(conv_calls) - 1))
        IN  /\ Len(conv_calls) >= 1
            /\ last.size = 2
            /\ last.ret = 2
            /\ used + 1 < Len(params)
            /\ last.gates = << <<"RY", params[used + 1], 0>>,
                               <<"RY", params[used + 2], 1>>,
                               <<"CNOT", 0, 1>> >>
            /\ \A k \in 1..(Len(conv_calls) - 1) : conv_calls[k].size # 2

C10_Witness ==
    /\ pc = "gen_done"
    /\ num_qubits = 8
    /\ Len(conv_calls) = 3
    /\ conv_calls[3].size = 2

\* positions of the program inside run_batched, run, and the kernel run
BatchedStates ==
    {"batched_optimize", "batched_predict", "batched_done"}

RunStates ==
    {"run_optimize", "run_predict", "run_done"}

KernelStates ==
    {"svm_fit", "svm_score", "svm_predict", "kernel_done"}

\* number of cost_function invocations whose batch contains training sample t
TimesUsed(t) ==
    Cardinality({k \in 1..Len(cost_calls) :
        \E i \in 1..Len(cost_calls[k].vectors) :
            cost_calls[k].vectors[i] = training_vectors[t]})

\* the first num_batches invocations used the contiguous slices [k*L, (k+1)*L),
\* L = floor(T/N), pairwise disjoint
BatchSlicesContiguous ==
    LET T == Len(training_vectors)
        N == num_batches
        L == batch_lenght
    IN  /\ L * N <= T
        /\ T < (L + 1) * N
        /\ \A k \in 0..(N - 1) :
               LET c == cost_calls[k + 1]
               IN  /\ c.lo = k * L
                   /\ c.hi = (k + 1) * L
                   /\ c.vectors = [i \in 1..L |-> training_vectors[k * L + i]]
                   /\ c.labels = [i \in 1..L |-> training_labels[k * L + i]]
        /\ \A j, k \in 1..N :
               j # k =>
                   {cost_calls[j].vectors[i] : i \in 1..Len(cost_calls[j].vectors)}
                   \cap
                   {cost_calls[k].vectors[i] : i \in 1..Len(cost_calls[k].vectors)}
                   = {}

C3_PredictionsAreSigns ==
    /\ pc \in {"run_optimize", "batched_optimize"} =>
           /\ test_evals = <<>>
           /\ optimizer_result = <<>>
           /\ \A i \in 1..Len(predictions) : predictions[i] = Uninitialized
    /\ pc \in {"run_predict", "run_done", "batched_predict", "batched_done"} =>
           /\ Len(optimizer_result) = 1
           /\ self_params = optimizer_result[1]
           /\ Len(predictions) = Len(testing_vectors)
           /\ \A i \in 1..Len(test_evals) :
                  LET out == expval(testing_vectors[i], optimizer_result[1])
                  IN  /\ test_evals[i].vector = testing_vectors[i]
                      /\ test_evals[i].params = optimizer_result[1]
                      /\ test_evals[i].out = out
                      /\ predictions[i] \in {-1, 0, 1}
                      /\ (predictions[i] = 0) = (out = 0)
                      /\ out > 0 => predictions[i] = 1
                      /\ out < 0 => predictions[i] = -1
                      /\ optimizer_result[1] = initial_params =>
                             predictions[i] * expval(testing_vectors[i], initial_params)
                                 = IF out < 0 THEN -out ELSE out
    /\ pc \in {"run_done", "batched_done"} =>
           Len(test_evals) = Len(testing_vectors)

C3_Witness ==
    /\ pc = "run_done"
    /\ optimizer_result = <<initial_params>>
    /\ Len(cost_calls) >= 1
    /\ \E i \in 1..Len(predictions) : predictions[i] = 0
    /\ \E i \in 1..Len(predictions) : predictions[i] = 1

\* C4: for every dataset of m samples and every training_ratio with
\* 0 < training_ratio < 1 the three drivers split at p = floor(ratio * m):
\* training is samples [0, p), test is samples [p, m), the partitions are
\* disjoint and together hold every sample once in the original order, and
\* the labels are split at the same index.
C4_PositionalSplit ==
    pc \in (RunStates \cup BatchedStates \cup KernelStates) =>
        LET m == Len(feature_vectors)
            p == training_period
        IN  /\ Len(labels) = m
            /\ p * training_ratio[2] <= training_ratio[1] * m
            /\ training_ratio[1] * m < (p + 1) * training_ratio[2]
            /\ p \in 0..m
            /\ training_vectors = [i \in 1..p |-> feature_vectors[i]]
            /\ testing_vectors = [i \in 1..(m - p) |-> feature_vectors[p + i]]
            /\ training_labels = [i \in 1..p |-> labels[i]]
            /\ testing_labels = [i \in 1..(m - p) |-> labels[p + i]]
            /\ training_vectors \o testing_vectors = feature_vectors
            /\ training_labels \o testing_labels = labels
            /\ {training_vectors[i] : i \in 1..Len(training_vectors)}
               \cap {testing_vectors[i] : i \in 1..Len(testing_vectors)} = {}

C4_Witness ==
    /\ pc = "svm_fit"
    /\ Len(feature_vectors) = 4
    /\ training_ratio = <<4, 5>>
    /\ training_period = 3
    /\ testing_vectors = <<4>>

\* C6: the kernel function, called with vector sets A and B, invokes the
\* kernel circuit exactly once for every pair (a in A, b in B), a first and b
\* second (embedding of a, then adjoint embedding of b), and returns a
\* |A| x |B| matrix whose entry (i, j) is the probability of the all-zero
\* outcome for the pair (A[i], B[j]).
C6_KernelMatrix ==
    \A c \in 1..Len(qkernel_calls) :
        LET r == qkernel_calls[c]
            nA == Len(r.A)
            nB == Len(r.B)
        IN  /\ Len(r.circuits) = nA * nB
            /\ Len(r.matrix) = nA
            /\ \A i \in 1..nA :
                   /\ Len(r.matrix[i]) = nB
                   /\ \A j \in 1..nB :
                          /\ r.matrix[i][j] = overlap(r.A[i], r.B[j])
                          /\ Cardinality({k \in 1..Len(r.circuits) :
                                 r.circuits[k] = << <<"EMBED", r.A[i], 0>>,
                                                    <<"ADJOINT_EMBED", r.B[j], 0>>,
                                                    <<"PROBS", 0, 0>> >>}) = 1

C6_Witness ==
    /\ pc = "kernel_done"
    /\ Len(qkernel_calls) = 3
    /\ Len(qkernel_calls[2].A) = 1
    /\ Len(qkernel_calls[2].B) = 3
    /\ qkernel_calls[2].matrix = << <<0, 0, 0>> >>

\* the batch index is the number of invocations made so far, and invocation k
\* requested the slice [k*L, (k+1)*L)
BatchIndexCountsInvocations ==
    /\ batch_number = Len(cost_calls)
    /\ \A k \in 0..(Len(cost_calls) - 1) :
           /\ cost_calls[k + 1].lo = k * batch_lenght
           /\ cost_calls[k + 1].hi = (k + 1) * batch_lenght

\* C7 (as stated), on the runs whose batches are not empty (L >= 1): within
\* one run_batched call the batch index equals the number of cost-function
\* invocations made so far, and for EVERY invocation made after the first
\* num_batches the requested slice [k*L, (k+1)*L) exceeds the bounds of the
\* training partition of T samples.
C7_Original ==
    (pc \in BatchedStates /\ batch_lenght >= 1) =>
        /\ BatchIndexCountsInvocations
        /\ \A k \in num_batches..(Len(cost_calls) - 1) :
               cost_calls[k + 1].hi > Len(training_vectors)

\* C7 (amended): within one run_batched call the batch index equals the
\* number of cost-function invocations made so far (never reset or wrapped),
\* and, when the remainder T - N*L is smaller than L, for every invocation
\* made after the first num_batches the requested slice [k*L, (k+1)*L)
\* exceeds the bounds of the training partition (and holds fewer than L
\* samples); such an invocation never holds a sample of index < N*L.
C7_BatchIndexNeverReset ==
    pc \in BatchedStates =>
        LET T == Len(training_vectors)
            N == num_batches
            L == batch_lenght
        IN  /\ BatchIndexCountsInvocations
            /\ \A k \in N..(Len(cost_calls) - 1) :
                   /\ T - N * L < L =>
                          /\ cost_calls[k + 1].hi > T
                          /\ Len(cost_calls[k + 1].vectors) < L
                   /\ \A t \in 1..(N * L) :
                          \A i \in 1..Len(cost_calls[k + 1].vectors) :
                              cost_calls[k + 1].vectors[i] # training_vectors[t]

C7_Witness ==
    /\ pc = "batched_optimize"
    /\ num_batches = 2
    /\ Len(training_vectors) = 2
    /\ Len(cost_calls) = 3
    /\ cost_calls[3].lo = 2
    /\ cost_calls[3].vectors = <<>>

IsRotation(g) ==
    g[1] = "RY"

\* the parameter values read by the rotation gates queued so far, in order
ParamsRead ==
    LET R == SelectSeq(tape, IsRotation)
    IN  [j \in 1..Len(R) |-> R[j][2]]

\* C11: during one generate_qcnn_circuit call for n >= 2 with a parameter
\* vector of length num_params, the offset passed to each convolution is the
\* sum of the counts returned by the earlier convolutions, so the rotation
\* gates read the parameter indices 0, 1, ..., num_params - 1 in strictly
\* increasing order, each exactly once, and no index >= num_params is read.
C11_ParamsReadSequentially ==
    pc \in {"gen_conv", "gen_pool", "gen_measure", "gen_done"} =>
        /\ Len(params) = num_params
        /\ \A k \in 1..Len(conv_calls) :
               LET before == sum_ret(SubSeq(conv_calls, 1, k - 1))
               IN  /\ conv_calls[k].offset = before
                   /\ conv_calls[k].params =
                          [j \in 1..(num_params - before) |-> params[before + j]]
        /\ num_params_utilized = sum_ret(conv_calls)
        /\ Len(ParamsRead) = num_params_utilized
        /\ \A j \in 1..Len(ParamsRead) :
               /\ ParamsRead[j] = params[j]
               /\ ParamsRead[j] = j - 1
               /\ ParamsRead[j] # IndexError
               /\ ParamsRead[j] < num_params
        /\ pc \in {"gen_measure", "gen_done"} => Len(ParamsRead) = num_params

C11_Witness ==
    /\ pc = "gen_done"
    /\ num_qubits = 5
    /\ num_params = 18
    /\ Len(conv_calls) = 3
    /\ conv_calls[2].offset = 10
    /\ conv_calls[3].offset = 16

=============================================================================
